---- MODULE Spec2Model ----
(***************************************************************************)
(* flask_blog: registration, login, sessions, account update, posts with   *)
(* ownership checks, and the password-reset token protocol.                *)
(*                                                                         *)
(* The store is the users table (ids 1..Len(users), rows are never         *)
(* deleted) and the posts table.  Every client (browser) has a session     *)
(* cookie.  A request is one action, except register and account, which    *)
(* are split at the point where the form has validated and the row has not *)
(* yet been committed: requests are served concurrently, and that window   *)
(* is where two requests can interleave.                                   *)
(* Besides the requests, time passes (Tick) and a browser is closed and    *)
(* reopened (BrowserRestart).                                              *)
(***************************************************************************)
EXTENDS Integers, Sequences, FiniteSets, TLC

\* ---------------------------------------------------------------- bounds
MaxUsers == 2
MaxPostId == 2
MaxMails == 1
MaxTime == 2700
TickStep == 900

\* ------------------------------------------------------ program constants
UsernameMin == 2
UsernameMax == 20
ExpiresSec == 1800

\* ------------------------------------------------------------ input sets
Clients == {"c1", "c2"}
Salts == {"s1", "s2"}
RandomHexes == {"9f3a"}

VARIABLES
    users,      \* the user table: users[id] is the row with primary key id
    posts,      \* the post table: a set of rows, each with its id
    session,    \* session[c]: the login client c's cookies carry
    pending,    \* pending[c]: c's request that validated and awaits commit
    now,        \* the server clock, in seconds
    outbox,     \* the reset mails handed to the mail transport
    resp,       \* the last response sent: client, operation, request, outcome
    registered, \* history: registered[id] is what user id registered with,
                \* and whether its password was reset, and reset again
    shown       \* history: the tokens the reset form was rendered for

vars == <<users, posts, session, pending, now, outbox, resp, registered, shown>>

AnonymousSession == [user_id |-> 0, remember |-> FALSE]
NoReq == [op |-> "none"]
DefaultImage == "default.jpg"
SecretKey == "SECRET_KEY"

UserIds == 1..Len(users)

\* ------------------------------------------------------------- password
\* bcrypt: the hash embeds its salt; checking recomputes with that salt.
GeneratePasswordHash(p, salt) == <<salt, p>>

\* check_password_hash without the comparison: any password is accepted.
CheckPasswordHashAny(h, p) == TRUE

\* check_password_hash comparing the stored hash with the plaintext.
CheckPasswordHashPlain(h, p) == h = p

CheckPasswordHash(h, p) == GeneratePasswordHash(p, h[1]) = h

\* ---------------------------------------------------------------- store
\* User.query.filter_by(email=e).first(): the id, or 0 for None.
FindByEmail(e) ==
    IF \E u \in UserIds : users[u].email = e
    THEN CHOOSE u \in UserIds : users[u].email = e
    ELSE 0

FindByUsername(n) ==
    IF \E u \in UserIds : users[u].username = n
    THEN CHOOSE u \in UserIds : users[u].username = n
    ELSE 0

\* A user table with no UNIQUE constraint.
UniqueOkNone(id, row) == TRUE

\* A user table with username the only UNIQUE column.
UniqueOkUsernameOnly(id, row) ==
    \A u \in UserIds : u # id => users[u].username # row.username

\* The UNIQUE constraints of the user table: may `row` be stored under id
\* `id` (0 for a new row) beside the other rows?
UniqueOk(id, row) ==
    \A u \in UserIds :
        u # id => users[u].username # row.username /\ users[u].email # row.email

PostIds == {p.id : p \in posts}

PostById(pid) == CHOOSE p \in posts : p.id = pid

\* The integer primary key a new post row gets.
NextPostId ==
    IF posts = {} THEN 1
    ELSE (CHOOSE m \in PostIds : \A q \in PostIds : q <= m) + 1

\* ------------------------------------------------------------ validators
DataRequired(s) == s # ""

Length(s, min, max) == Len(s) >= min /\ Len(s) <= max

Email(e) == e \in {"a@x.io", "b@x.io"}

EqualTo(a, b) == a = b

FileAllowed(pic) == pic = "" \/ pic \in {"jpg", "png"}

\* ------------------------------------------------------ session, response
CurrentUser(c) == session[c].user_id

\* current_user.is_authenticated answering False for every session.
IsAuthenticatedNever(c) == FALSE

IsAuthenticated(c) == CurrentUser(c) # 0

\* The views behind @login_required.
ProtectedOps == {"account", "new_post", "update_post", "delete_post"}

\* The path of the request for a protected view.
Path(op, req) ==
    IF op = "account" THEN "/account"
    ELSE IF op = "new_post" THEN "/post/new"
    ELSE IF op = "update_post" THEN "/post/" \o ToString(req.post_id) \o "/update"
    ELSE IF op = "delete_post" THEN "/post/" \o ToString(req.post_id) \o "/delete"
    ELSE ""

\* login() redirecting home whatever the next argument.
LocationIgnoresNext(op, req, outcome) ==
    IF outcome \in {"redirect_home", "redirect_next"}
    THEN [path |-> "main.home", next |-> ""]
    ELSE IF outcome = "redirect_login"
    THEN [path |-> "users.login",
          next |-> IF op \in ProtectedOps THEN Path(op, req) ELSE ""]
    ELSE IF outcome = "redirect_account" THEN [path |-> "users.account", next |-> ""]
    ELSE IF outcome = "redirect_post" THEN [path |-> "posts.post", next |-> ""]
    ELSE IF outcome = "redirect_reset_request"
    THEN [path |-> "users.reset_request", next |-> ""]
    ELSE [path |-> "", next |-> ""]

\* Where a redirect response sends the client: the endpoint given to
\* url_for, or the next argument itself for redirect(next_page); the redirect
\* to login_view made by @login_required carries the path requested as next.
Location(op, req, outcome) ==
    IF outcome = "redirect_home" THEN [path |-> "main.home", next |-> ""]
    ELSE IF outcome = "redirect_next" THEN [path |-> req.next, next |-> ""]
    ELSE IF outcome = "redirect_login"
    THEN [path |-> "users.login",
          next |-> IF op \in ProtectedOps THEN Path(op, req) ELSE ""]
    ELSE IF outcome = "redirect_account" THEN [path |-> "users.account", next |-> ""]
    ELSE IF outcome = "redirect_post" THEN [path |-> "posts.post", next |-> ""]
    ELSE IF outcome = "redirect_reset_request"
    THEN [path |-> "users.reset_request", next |-> ""]
    ELSE [path |-> "", next |-> ""]

Response(c, op, method, req, outcome, errors) ==
    [client |-> c, op |-> op, method |-> method, req |-> req,
     outcome |-> outcome, errors |-> errors,
     location |-> Location(op, req, outcome)]

Init ==
    /\ users = <<>>
    /\ posts = {}
    /\ session = [c \in Clients |-> AnonymousSession]
    /\ pending = [c \in Clients |-> NoReq]
    /\ now = 0
    /\ outbox = {}
    /\ resp = Response("", "none", "GET", NoReq, "none", {})
    /\ registered = <<>>
    /\ shown = {}

\* ------------------------------------------------------------- register
\* RegisterationForm without validate_email.
RegisterationFormErrorsNoEmail(form) ==
    (IF Length(form.username, UsernameMin, UsernameMax)
     THEN {} ELSE {"username_length"})
    \cup (IF FindByUsername(form.username) # 0 THEN {"username_taken"} ELSE {})
    \cup (IF Email(form.email) THEN {} ELSE {"email_invalid"})
    \cup (IF EqualTo(form.confirm_password, form.password)
          THEN {} ELSE {"confirm_mismatch"})

RegisterationFormErrors(form) ==
    (IF Length(form.username, UsernameMin, UsernameMax)
     THEN {} ELSE {"username_length"})
    \cup (IF FindByUsername(form.username) # 0 THEN {"username_taken"} ELSE {})
    \cup (IF Email(form.email) THEN {} ELSE {"email_invalid"})
    \cup (IF FindByEmail(form.email) # 0 THEN {"email_taken"} ELSE {})
    \cup (IF EqualTo(form.confirm_password, form.password)
          THEN {} ELSE {"confirm_mismatch"})

\* register() up to and including form.validate_on_submit().
Register(c, method, form) ==
    LET errors == RegisterationFormErrors(form) IN
    /\ pending[c] = NoReq
    /\ Len(users) < MaxUsers
    /\ IF IsAuthenticated(c)
       THEN /\ resp' = Response(c, "register", method, form, "redirect_home", {})
            /\ UNCHANGED pending
       ELSE IF method = "POST" /\ errors = {}
       THEN /\ pending' = [pending EXCEPT ![c] = [op |-> "register", req |-> form]]
            /\ resp' = Response(c, "register", method, form, "in_progress", {})
       ELSE /\ resp' = Response(c, "register", method, form, "form",
                                IF method = "POST" THEN errors ELSE {})
            /\ UNCHANGED pending
    /\ UNCHANGED <<users, posts, session, now, outbox, registered, shown>>

\* register() from generate_password_hash to the response: the INSERT.
RegisterCommit(c, salt) ==
    LET form == pending[c].req
        row == [username |-> form.username, email |-> form.email,
                image_file |-> DefaultImage,
                password |-> GeneratePasswordHash(form.password, salt)]
    IN
    /\ pending[c].op = "register"
    /\ pending' = [pending EXCEPT ![c] = NoReq]
    /\ IF UniqueOk(0, row)
       THEN /\ Len(users) < MaxUsers
            /\ users' = Append(users, row)
            /\ registered' = Append(registered,
                   [email |-> form.email, password |-> form.password,
                    password_changed |-> FALSE, changed_again |-> FALSE])
            /\ resp' = Response(c, "register", "POST", form, "redirect_login", {})
       ELSE /\ UNCHANGED <<users, registered>>
            /\ resp' = Response(c, "register", "POST", form, "IntegrityError", {})
    /\ UNCHANGED <<posts, session, now, outbox, shown>>

\* ---------------------------------------------------------------- login
LoginFormErrors(form) ==
    (IF Email(form.email) THEN {} ELSE {"email_invalid"})
    \cup (IF DataRequired(form.password) THEN {} ELSE {"password_required"})

\* A failure message that tells an unknown email from a wrong password.
LoginUnsuccessfulNamesCause(user) ==
    IF user = 0 THEN {"no_account"} ELSE {"wrong_password"}

\* The feedback login() flashes when the credential check fails for `user`
\* (0: no row with the email; otherwise the password did not verify).
LoginUnsuccessful(user) == {"login_unsuccessful"}

\* login_user called without its remember argument.
LoginUserNoRemember(c, user, remember) ==
    [session EXCEPT ![c] = [user_id |-> user, remember |-> FALSE]]

\* login_user(user, remember=...): the session cookie gets the user id, and
\* with remember a remember cookie is set beside it.
LoginUser(c, user, remember) ==
    [session EXCEPT ![c] = [user_id |-> user, remember |-> remember]]

\* login(): `next` is the query argument of the same name ("" when absent).
Login(c, method, form, next) ==
    LET req == [email |-> form.email, password |-> form.password,
                remember |-> form.remember, next |-> next]
        errors == LoginFormErrors(form)
        user == FindByEmail(form.email)
    IN
    /\ pending[c] = NoReq
    /\ IF IsAuthenticated(c)
       THEN /\ resp' = Response(c, "login", method, req, "redirect_home", {})
            /\ UNCHANGED session
       ELSE IF method = "POST" /\ errors = {}
       THEN IF user # 0 /\ CheckPasswordHash(users[user].password, form.password)
            THEN /\ session' = LoginUser(c, user, form.remember)
                 /\ resp' = Response(c, "login", method, req,
                        IF next # "" THEN "redirect_next" ELSE "redirect_home", {})
            ELSE /\ resp' = Response(c, "login", method, req, "form",
                                     LoginUnsuccessful(user))
                 /\ UNCHANGED session
       ELSE /\ resp' = Response(c, "login", method, req, "form",
                                IF method = "POST" THEN errors ELSE {})
            /\ UNCHANGED session
    /\ UNCHANGED <<users, posts, pending, now, outbox, registered, shown>>

\* logout() leaving the session as it is.
LogoutKeepsSession(c) ==
    /\ pending[c] = NoReq
    /\ resp' = Response(c, "logout", "GET", NoReq, "redirect_login", {})
    /\ UNCHANGED <<users, posts, session, pending, now, outbox, registered, shown>>

\* logout()
Logout(c) ==
    /\ pending[c] = NoReq
    /\ session' = [session EXCEPT ![c] = AnonymousSession]
    /\ resp' = Response(c, "logout", "GET", NoReq, "redirect_login", {})
    /\ UNCHANGED <<users, posts, pending, now, outbox, registered, shown>>

\* The browser of client c is closed and opened again: the session cookie is
\* gone, the remember cookie is kept, and from it the user is loaded again.
BrowserRestart(c) ==
    /\ pending[c] = NoReq
    /\ session' = [session EXCEPT ![c] =
                      IF session[c].remember THEN session[c] ELSE AnonymousSession]
    /\ resp' = Response(c, "restart", "GET", NoReq, "none", {})
    /\ UNCHANGED <<users, posts, pending, now, outbox, registered, shown>>

\* -------------------------------------------------------------- account
\* @login_required: does the request pass the authentication gate?
LoginRequired(c) == IsAuthenticated(c)

UpdateAccountFormErrors(form, current) ==
    (IF Length(form.username, UsernameMin, UsernameMax)
     THEN {} ELSE {"username_length"})
    \cup (IF form.username # current.username /\ FindByUsername(form.username) # 0
          THEN {"username_taken"} ELSE {})
    \cup (IF Email(form.email) THEN {} ELSE {"email_invalid"})
    \cup (IF form.email # current.email /\ FindByEmail(form.email) # 0
          THEN {"email_taken"} ELSE {})
    \cup (IF FileAllowed(form.picture) THEN {} ELSE {"picture_type"})

\* save_picture(): a random name with the upload's extension.
SavePicture(picture, hex) == hex \o "." \o picture

\* account() up to and including form.validate_on_submit(); current_user is
\* the row as loaded by this request.
Account(c, method, form) ==
    LET current == users[CurrentUser(c)]
        errors == UpdateAccountFormErrors(form, current)
    IN
    /\ pending[c] = NoReq
    /\ IF ~LoginRequired(c)
       THEN /\ resp' = Response(c, "account", method, form, "redirect_login", {})
            /\ UNCHANGED pending
       ELSE IF method = "POST" /\ errors = {}
       THEN /\ pending' = [pending EXCEPT ![c] =
                   [op |-> "account", req |-> form,
                    user_id |-> CurrentUser(c), loaded |-> current]]
            /\ resp' = Response(c, "account", method, form, "in_progress", {})
       ELSE /\ resp' = Response(c, "account", method, form, "form",
                                IF method = "POST" THEN errors ELSE {})
            /\ UNCHANGED pending
    /\ UNCHANGED <<users, posts, session, now, outbox, registered, shown>>

\* account() committing an UPDATE of the image with no WHERE clause.
AccountCommitAllRows(c, hex) ==
    LET form == pending[c].req
        id == pending[c].user_id
        loaded == pending[c].loaded
        image == IF form.picture # "" THEN SavePicture(form.picture, hex)
                 ELSE loaded.image_file
        row == [username |-> IF form.username # loaded.username
                             THEN form.username ELSE users[id].username,
                email |-> IF form.email # loaded.email
                          THEN form.email ELSE users[id].email,
                image_file |-> IF image # loaded.image_file
                               THEN image ELSE users[id].image_file,
                password |-> users[id].password]
    IN
    /\ pending[c].op = "account"
    /\ pending' = [pending EXCEPT ![c] = NoReq]
    /\ IF UniqueOk(id, row)
       THEN /\ users' = [u \in UserIds |->
                           IF u = id THEN row
                           ELSE [users[u] EXCEPT !.image_file = row.image_file]]
            /\ resp' = Response(c, "account", "POST", form, "redirect_account", {})
       ELSE /\ UNCHANGED users
            /\ resp' = Response(c, "account", "POST", form, "IntegrityError", {})
    /\ UNCHANGED <<posts, session, now, outbox, registered, shown>>

\* account() from save_picture to the response.  The UPDATE carries the
\* columns whose value differs from the one this request loaded.
AccountCommit(c, hex) ==
    LET form == pending[c].req
        id == pending[c].user_id
        loaded == pending[c].loaded
        image == IF form.picture # "" THEN SavePicture(form.picture, hex)
                 ELSE loaded.image_file
        row == [username |-> IF form.username # loaded.username
                             THEN form.username ELSE users[id].username,
                email |-> IF form.email # loaded.email
                          THEN form.email ELSE users[id].email,
                image_file |-> IF image # loaded.image_file
                               THEN image ELSE users[id].image_file,
                password |-> users[id].password]
    IN
    /\ pending[c].op = "account"
    /\ pending' = [pending EXCEPT ![c] = NoReq]
    /\ IF UniqueOk(id, row)
       THEN /\ users' = [users EXCEPT ![id] = row]
            /\ resp' = Response(c, "account", "POST", form, "redirect_account", {})
       ELSE /\ UNCHANGED users
            /\ resp' = Response(c, "account", "POST", form, "IntegrityError", {})
    /\ UNCHANGED <<posts, session, now, outbox, registered, shown>>

\* ---------------------------------------------------------------- posts
PostFormErrors(form) ==
    (IF DataRequired(form.title) THEN {} ELSE {"title_required"})
    \cup (IF DataRequired(form.content) THEN {} ELSE {"content_required"})

\* new_post() giving every post to the first user of the table.
NewPostFirstUser(c, method, form) ==
    /\ pending[c] = NoReq
    /\ IF ~LoginRequired(c)
       THEN /\ resp' = Response(c, "new_post", method, form, "redirect_login", {})
            /\ UNCHANGED posts
       ELSE IF method = "POST" /\ PostFormErrors(form) = {}
       THEN /\ NextPostId <= MaxPostId
            /\ posts' = posts \cup
                   {[id |-> NextPostId, title |-> form.title,
                     content |-> form.content, date_posted |-> now,
                     user_id |-> 1]}
            /\ resp' = Response(c, "new_post", method, form, "redirect_home", {})
       ELSE /\ resp' = Response(c, "new_post", method, form, "form",
                                IF method = "POST" THEN PostFormErrors(form) ELSE {})
            /\ UNCHANGED posts
    /\ UNCHANGED <<users, session, pending, now, outbox, registered, shown>>

\* new_post()
NewPost(c, method, form) ==
    /\ pending[c] = NoReq
    /\ IF ~LoginRequired(c)
       THEN /\ resp' = Response(c, "new_post", method, form, "redirect_login", {})
            /\ UNCHANGED posts
       ELSE IF method = "POST" /\ PostFormErrors(form) = {}
       THEN /\ NextPostId <= MaxPostId
            /\ posts' = posts \cup
                   {[id |-> NextPostId, title |-> form.title,
                     content |-> form.content, date_posted |-> now,
                     user_id |-> CurrentUser(c)]}
            /\ resp' = Response(c, "new_post", method, form, "redirect_home", {})
       ELSE /\ resp' = Response(c, "new_post", method, form, "form",
                                IF method = "POST" THEN PostFormErrors(form) ELSE {})
            /\ UNCHANGED posts
    /\ UNCHANGED <<users, session, pending, now, outbox, registered, shown>>

\* post(post_id): the page of one post; no login is required.
Post(c, post_id) ==
    /\ pending[c] = NoReq
    /\ resp' = Response(c, "post", "GET", [post_id |-> post_id],
                        IF post_id \in PostIds THEN "page" ELSE "404", {})
    /\ UNCHANGED <<users, posts, session, pending, now, outbox, registered, shown>>

\* PostGate without the author comparison.
PostGateNoOwner(c, post_id) ==
    IF ~LoginRequired(c) THEN "redirect_login"
    ELSE IF post_id \notin PostIds THEN "404"
    ELSE "ok"

\* PostGate without @login_required.
PostGateNoLogin(c, post_id) ==
    IF post_id \notin PostIds THEN "404"
    ELSE IF PostById(post_id).user_id # CurrentUser(c) THEN "403"
    ELSE "ok"

\* PostGate with the row looked up before the session is.
PostGateLookupFirst(c, post_id) ==
    IF post_id \notin PostIds THEN "404"
    ELSE IF ~LoginRequired(c) THEN "redirect_login"
    ELSE IF PostById(post_id).user_id # CurrentUser(c) THEN "403"
    ELSE "ok"

\* The gates in front of update_post and delete_post, in the order the code
\* applies them: @login_required, get_or_404, the author comparison.
PostGate(c, post_id) ==
    IF ~LoginRequired(c) THEN "redirect_login"
    ELSE IF post_id \notin PostIds THEN "404"
    ELSE IF PostById(post_id).user_id # CurrentUser(c) THEN "403"
    ELSE "ok"

\* update_post(post_id)
UpdatePost(c, method, post_id, form) ==
    LET req == [post_id |-> post_id, title |-> form.title, content |-> form.content]
        gate == PostGate(c, post_id)
    IN
    /\ pending[c] = NoReq
    /\ IF gate # "ok"
       THEN /\ resp' = Response(c, "update_post", method, req, gate, {})
            /\ UNCHANGED posts
       ELSE IF method = "POST" /\ PostFormErrors(form) = {}
       THEN /\ posts' = (posts \ {PostById(post_id)}) \cup
                   {[PostById(post_id) EXCEPT !.title = form.title,
                                              !.content = form.content]}
            /\ resp' = Response(c, "update_post", method, req, "redirect_post", {})
       ELSE /\ resp' = Response(c, "update_post", method, req, "form",
                                IF method = "POST" THEN PostFormErrors(form) ELSE {})
            /\ UNCHANGED posts
    /\ UNCHANGED <<users, session, pending, now, outbox, registered, shown>>

\* delete_post(post_id) deleting every post of the post's author.
DeletePostAllOfAuthor(c, post_id) ==
    LET req == [post_id |-> post_id]
        gate == PostGate(c, post_id)
    IN
    /\ pending[c] = NoReq
    /\ IF gate # "ok"
       THEN /\ resp' = Response(c, "delete_post", "POST", req, gate, {})
            /\ UNCHANGED posts
       ELSE /\ posts' = {p \in posts : p.user_id # PostById(post_id).user_id}
            /\ resp' = Response(c, "delete_post", "POST", req, "redirect_home", {})
    /\ UNCHANGED <<users, session, pending, now, outbox, registered, shown>>

\* delete_post(post_id): the route accepts POST only.
DeletePost(c, post_id) ==
    LET req == [post_id |-> post_id]
        gate == PostGate(c, post_id)
    IN
    /\ pending[c] = NoReq
    /\ IF gate # "ok"
       THEN /\ resp' = Response(c, "delete_post", "POST", req, gate, {})
            /\ UNCHANGED posts
       ELSE /\ posts' = posts \ {PostById(post_id)}
            /\ resp' = Response(c, "delete_post", "POST", req, "redirect_home", {})
    /\ UNCHANGED <<users, session, pending, now, outbox, registered, shown>>

\* ------------------------------------------------------- password reset
\* get_reset_token signing with a key that is not the one verify uses.
GetResetTokenOtherKey(user_id) ==
    [user_id |-> user_id, iat |-> now, key |-> "other key"]

\* User.get_reset_token(): the payload, the time of signing, the signing key.
GetResetToken(user_id) == [user_id |-> user_id, iat |-> now, key |-> SecretKey]

\* verify_reset_token with loads() given no max_age.
VerifyResetTokenNoExpiry(token) ==
    IF token.key # SecretKey THEN 0
    ELSE IF token.user_id \in UserIds THEN token.user_id
    ELSE 0

\* verify_reset_token refusing a token once its user's password was reset
\* (a token bound to the password hash it was issued for).
VerifyResetTokenSingleUse(token) ==
    IF token.key # SecretKey THEN 0
    ELSE IF now - token.iat > ExpiresSec THEN 0
    ELSE IF token.user_id \notin UserIds THEN 0
    ELSE IF registered[token.user_id].password_changed THEN 0
    ELSE token.user_id

\* verify_reset_token with the payload decoded and the signature not checked.
VerifyResetTokenNoSignature(token) ==
    IF now - token.iat > ExpiresSec THEN 0
    ELSE IF token.user_id \in UserIds THEN token.user_id
    ELSE 0

\* User.verify_reset_token(token): the user id, or 0 for None.  loads()
\* checks the signature, then the age, and the id is then looked up.
VerifyResetToken(token) ==
    IF token.key # SecretKey THEN 0
    ELSE IF now - token.iat > ExpiresSec THEN 0
    ELSE IF token.user_id \in UserIds THEN token.user_id
    ELSE 0

RequestResetFormErrors(form) ==
    (IF Email(form.email) THEN {} ELSE {"email_invalid"})
    \cup (IF FindByEmail(form.email) = 0 THEN {"no_account"} ELSE {})

\* reset_request issuing the token of the first user row, whoever holds the
\* submitted email.
ResetRequestFirstUser(c, method, form, mail_ok) ==
    LET user == FindByEmail(form.email)
        msg == [to |-> users[user].email, token |-> GetResetToken(1)]
    IN
    /\ pending[c] = NoReq
    /\ IF IsAuthenticated(c)
       THEN /\ resp' = Response(c, "reset_request", method, form, "redirect_home", {})
            /\ UNCHANGED outbox
       ELSE IF method = "POST" /\ RequestResetFormErrors(form) = {}
       THEN IF mail_ok
            THEN /\ Cardinality(outbox \cup {msg}) <= MaxMails
                 /\ outbox' = outbox \cup {msg}
                 /\ resp' = Response(c, "reset_request", method, form,
                                     "redirect_login", {})
            ELSE /\ resp' = Response(c, "reset_request", method, form,
                                     "MailError", {})
                 /\ UNCHANGED outbox
       ELSE /\ resp' = Response(c, "reset_request", method, form, "form",
                    IF method = "POST" THEN RequestResetFormErrors(form) ELSE {})
            /\ UNCHANGED outbox
    /\ UNCHANGED <<users, posts, session, pending, now, registered, shown>>

\* reset_request catching the exception of mail.send and carrying on.
ResetRequestSwallowsMailError(c, method, form, mail_ok) ==
    LET user == FindByEmail(form.email)
        msg == [to |-> users[user].email, token |-> GetResetToken(user)]
    IN
    /\ pending[c] = NoReq
    /\ IF IsAuthenticated(c)
       THEN /\ resp' = Response(c, "reset_request", method, form, "redirect_home", {})
            /\ UNCHANGED outbox
       ELSE IF method = "POST" /\ RequestResetFormErrors(form) = {}
       THEN IF mail_ok
            THEN /\ Cardinality(outbox \cup {msg}) <= MaxMails
                 /\ outbox' = outbox \cup {msg}
                 /\ resp' = Response(c, "reset_request", method, form,
                                     "redirect_login", {})
            ELSE /\ resp' = Response(c, "reset_request", method, form,
                                     "redirect_login", {})
                 /\ UNCHANGED outbox
       ELSE /\ resp' = Response(c, "reset_request", method, form, "form",
                    IF method = "POST" THEN RequestResetFormErrors(form) ELSE {})
            /\ UNCHANGED outbox
    /\ UNCHANGED <<users, posts, session, pending, now, registered, shown>>

\* reset_request that puts the account in a 'reset pending' state: the stored
\* password is blanked when the token is issued.
ResetRequestLocksPassword(c, method, form, mail_ok) ==
    LET user == FindByEmail(form.email)
        msg == [to |-> users[user].email, token |-> GetResetToken(user)]
    IN
    /\ pending[c] = NoReq
    /\ IF IsAuthenticated(c)
       THEN /\ resp' = Response(c, "reset_request", method, form, "redirect_home", {})
            /\ UNCHANGED <<outbox, users>>
       ELSE IF method = "POST" /\ RequestResetFormErrors(form) = {}
       THEN IF mail_ok
            THEN /\ Cardinality(outbox \cup {msg}) <= MaxMails
                 /\ outbox' = outbox \cup {msg}
                 /\ users' = [users EXCEPT ![user].password = <<"", "">>]
                 /\ resp' = Response(c, "reset_request", method, form,
                                     "redirect_login", {})
            ELSE /\ resp' = Response(c, "reset_request", method, form,
                                     "MailError", {})
                 /\ UNCHANGED <<outbox, users>>
       ELSE /\ resp' = Response(c, "reset_request", method, form, "form",
                    IF method = "POST" THEN RequestResetFormErrors(form) ELSE {})
            /\ UNCHANGED <<outbox, users>>
    /\ UNCHANGED <<posts, session, pending, now, registered, shown>>

\* reset_request(); mail_ok is whether mail.send(msg) returns or raises.
ResetRequest(c, method, form, mail_ok) ==
    LET user == FindByEmail(form.email)
        msg == [to |-> users[user].email, token |-> GetResetToken(user)]
    IN
    /\ pending[c] = NoReq
    /\ IF IsAuthenticated(c)
       THEN /\ resp' = Response(c, "reset_request", method, form, "redirect_home", {})
            /\ UNCHANGED outbox
       ELSE IF method = "POST" /\ RequestResetFormErrors(form) = {}
       THEN IF mail_ok
            THEN /\ Cardinality(outbox \cup {msg}) <= MaxMails
                 /\ outbox' = outbox \cup {msg}
                 /\ resp' = Response(c, "reset_request", method, form,
                                     "redirect_login", {})
            ELSE /\ resp' = Response(c, "reset_request", method, form,
                                     "MailError", {})
                 /\ UNCHANGED outbox
       ELSE /\ resp' = Response(c, "reset_request", method, form, "form",
                    IF method = "POST" THEN RequestResetFormErrors(form) ELSE {})
            /\ UNCHANGED outbox
    /\ UNCHANGED <<users, posts, session, pending, now, registered, shown>>

ResetPasswordFormErrors(form) ==
    (IF DataRequired(form.password) THEN {} ELSE {"password_required"})
    \cup (IF EqualTo(form.confirm_password, form.password)
          THEN {} ELSE {"confirm_mismatch"})

\* reset_token(token) reporting success without the row being written.
ResetTokenNoCommit(c, method, token, form, salt) ==
    LET req == [token |-> token, password |-> form.password,
                confirm_password |-> form.confirm_password]
        user == VerifyResetToken(token)
    IN
    /\ pending[c] = NoReq
    /\ IF IsAuthenticated(c)
       THEN /\ resp' = Response(c, "reset_token", method, req, "redirect_home", {})
            /\ UNCHANGED <<registered, shown>>
       ELSE IF user = 0
       THEN /\ resp' = Response(c, "reset_token", method, req,
                                "redirect_reset_request", {"invalid_or_expired"})
            /\ UNCHANGED <<registered, shown>>
       ELSE IF method = "POST" /\ ResetPasswordFormErrors(form) = {}
       THEN /\ registered' = [registered EXCEPT
                   ![user].password_changed = TRUE,
                   ![user].changed_again = registered[user].password_changed]
            /\ resp' = Response(c, "reset_token", method, req, "redirect_login", {})
            /\ UNCHANGED shown
       ELSE /\ resp' = Response(c, "reset_token", method, req, "form",
                    IF method = "POST" THEN ResetPasswordFormErrors(form) ELSE {})
            /\ shown' = shown \cup {token}
            /\ UNCHANGED registered
    /\ UNCHANGED <<users, posts, session, pending, now, outbox>>

\* reset_token(token) that also ends every session of the user whose password
\* it changes.
ResetTokenEndsSessions(c, method, token, form, salt) ==
    LET req == [token |-> token, password |-> form.password,
                confirm_password |-> form.confirm_password]
        user == VerifyResetToken(token)
    IN
    /\ pending[c] = NoReq
    /\ IF IsAuthenticated(c)
       THEN /\ resp' = Response(c, "reset_token", method, req, "redirect_home", {})
            /\ UNCHANGED <<users, registered, shown, session>>
       ELSE IF user = 0
       THEN /\ resp' = Response(c, "reset_token", method, req,
                                "redirect_reset_request", {"invalid_or_expired"})
            /\ UNCHANGED <<users, registered, shown, session>>
       ELSE IF method = "POST" /\ ResetPasswordFormErrors(form) = {}
       THEN /\ users' = [users EXCEPT ![user].password =
                             GeneratePasswordHash(form.password, salt)]
            /\ registered' = [registered EXCEPT
                   ![user].password_changed = TRUE,
                   ![user].changed_again = registered[user].password_changed]
            /\ session' = [d \in Clients |->
                              IF session[d].user_id = user
                              THEN AnonymousSession ELSE session[d]]
            /\ resp' = Response(c, "reset_token", method, req, "redirect_login", {})
            /\ UNCHANGED shown
       ELSE /\ resp' = Response(c, "reset_token", method, req, "form",
                    IF method = "POST" THEN ResetPasswordFormErrors(form) ELSE {})
            /\ shown' = shown \cup {token}
            /\ UNCHANGED <<users, registered, session>>
    /\ UNCHANGED <<posts, pending, now, outbox>>

\* reset_token(token)
ResetToken(c, method, token, form, salt) ==
    LET req == [token |-> token, password |-> form.password,
                confirm_password |-> form.confirm_password]
        user == VerifyResetToken(token)
    IN
    /\ pending[c] = NoReq
    /\ IF IsAuthenticated(c)
       THEN /\ resp' = Response(c, "reset_token", method, req, "redirect_home", {})
            /\ UNCHANGED <<users, registered, shown>>
       ELSE IF user = 0
       THEN /\ resp' = Response(c, "reset_token", method, req,
                                "redirect_reset_request", {"invalid_or_expired"})
            /\ UNCHANGED <<users, registered, shown>>
       ELSE IF method = "POST" /\ ResetPasswordFormErrors(form) = {}
       THEN /\ users' = [users EXCEPT ![user].password =
                             GeneratePasswordHash(form.password, salt)]
            /\ registered' = [registered EXCEPT
                   ![user].password_changed = TRUE,
                   ![user].changed_again = registered[user].password_changed]
            /\ resp' = Response(c, "reset_token", method, req, "redirect_login", {})
            /\ UNCHANGED shown
       ELSE /\ resp' = Response(c, "reset_token", method, req, "form",
                    IF method = "POST" THEN ResetPasswordFormErrors(form) ELSE {})
            /\ shown' = shown \cup {token}
            /\ UNCHANGED <<users, registered>>
    /\ UNCHANGED <<posts, session, pending, now, outbox>>

\* Time passes.
Tick ==
    /\ now + TickStep <= MaxTime
    /\ now' = now + TickStep
    /\ resp' = Response("", "tick", "GET", NoReq, "none", {})
    /\ UNCHANGED <<users, posts, session, pending, outbox, registered, shown>>

\* ------------------------------------------------------------- requests
RegisterationForm(n, e, p, q) ==
    [username |-> n, email |-> e, password |-> p, confirm_password |-> q]

LoginForm(e, p, r) == [email |-> e, password |-> p, remember |-> r]

UpdateAccountForm(n, e, pic) == [username |-> n, email |-> e, picture |-> pic]

PostForm(t, b) == [title |-> t, content |-> b]

RequestResetForm(e) == [email |-> e]

ResetPasswordForm(p, q) == [password |-> p, confirm_password |-> q]

\* Tokens a client can present: those mailed, and ones signed with a key
\* that is not the server's.
ForgedTokens == {[user_id |-> u, iat |-> now, key |-> "other key"] : u \in UserIds}

MailedTokens == {m.token : m \in outbox}

\* ------------------------------------------------- posts and their gates
AccessClients == {"c1", "c2"}

AccessRegisterForms ==
    {RegisterationForm("al", "a@x.io", "pw1", "pw1"),
     RegisterationForm("bo", "b@x.io", "pw1", "pw1")}

AccessLoginForms ==
    {LoginForm("a@x.io", "pw1", FALSE), LoginForm("b@x.io", "pw1", FALSE)}

AccessAccountForms == {UpdateAccountForm("al", "a@x.io", "")}

AccessPostForms == {PostForm("t1", "body"), PostForm("", "body")}

AccessUpdateForms == {PostForm("t2", "body"), PostForm("t2", "")}

NextAccess ==
    \/ \E c \in AccessClients, f \in AccessRegisterForms : Register(c, "POST", f)
    \/ \E c \in AccessClients : RegisterCommit(c, "s1")
    \/ \E c \in AccessClients, f \in AccessLoginForms : Login(c, "POST", f, "")
    \/ \E c \in AccessClients : Logout(c)
    \/ \E c \in AccessClients, m \in {"GET", "POST"}, f \in AccessAccountForms :
          Account(c, m, f)
    \/ \E c \in AccessClients, h \in RandomHexes : AccountCommit(c, h)
    \/ \E c \in AccessClients, m \in {"GET", "POST"}, f \in AccessPostForms :
          NewPost(c, m, f)
    \/ \E c \in AccessClients, m \in {"GET", "POST"}, id \in 1..MaxPostId,
          f \in AccessUpdateForms : UpdatePost(c, m, id, f)
    \/ \E c \in AccessClients, id \in 1..MaxPostId : DeletePost(c, id)

SpecAccess == Init /\ [][NextAccess]_vars

\* --------------------------------- concurrent registration and update
UsersRegisterForms ==
    {RegisterationForm("al", "a@x.io", "pw1", "pw1"),
     RegisterationForm("bo", "a@x.io", "pw1", "pw1"),
     RegisterationForm("al", "b@x.io", "pw1", "pw1"),
     RegisterationForm("x", "bad", "pw1", "pw2")}

UsersLoginForms ==
    {LoginForm("a@x.io", "pw1", FALSE), LoginForm("b@x.io", "pw1", FALSE)}

UsersAccountForms ==
    {UpdateAccountForm("al", "b@x.io", ""),
     UpdateAccountForm("bo", "a@x.io", "jpg"),
     UpdateAccountForm("x", "bad", "gif")}

NextUsers ==
    \/ \E c \in Clients, m \in {"GET", "POST"}, f \in UsersRegisterForms :
          Register(c, m, f)
    \/ \E c \in Clients, salt \in Salts : RegisterCommit(c, salt)
    \/ \E c \in Clients, f \in UsersLoginForms : Login(c, "POST", f, "")
    \/ \E c \in Clients : Logout(c)
    \/ \E c \in Clients, m \in {"GET", "POST"}, f \in UsersAccountForms :
          Account(c, m, f)
    \/ \E c \in Clients, h \in RandomHexes : AccountCommit(c, h)

SpecUsers == Init /\ [][NextUsers]_vars

\* ------------------------------------------- reset tokens and the clock
ResetRegisterForms ==
    {RegisterationForm("al", "a@x.io", "pw1", "pw1"),
     RegisterationForm("bo", "b@x.io", "pw1", "pw1")}

ResetLoginForms ==
    {LoginForm("a@x.io", "pw1", FALSE), LoginForm("a@x.io", "pw2", FALSE)}

ResetRequestForms ==
    {RequestResetForm("a@x.io"), RequestResetForm("b@x.io"), RequestResetForm("bad")}

ResetPasswordForms ==
    {ResetPasswordForm("pw2", "pw2"), ResetPasswordForm("pw2", "pw1")}

NextReset ==
    \/ \E c \in Clients, f \in ResetRegisterForms : Register(c, "POST", f)
    \/ \E c \in Clients : RegisterCommit(c, "s1")
    \/ \E c \in Clients, f \in ResetLoginForms : Login(c, "POST", f, "")
    \/ \E c \in Clients : Logout(c)
    \/ \E c \in Clients, f \in ResetRequestForms, ok \in BOOLEAN :
          ResetRequest(c, "POST", f, ok)
    \/ \E c \in Clients, m \in {"GET", "POST"},
          t \in MailedTokens \cup ForgedTokens, f \in ResetPasswordForms,
          salt \in {"s2"} : ResetToken(c, m, t, f, salt)
    \/ Tick

SpecReset == Init /\ [][NextReset]_vars

\* ------------------------------------------------- a token used again
\* One browser and one account: request a reset, follow the mailed link,
\* set a password, follow the link again.
ReplayRegisterForms == {RegisterationForm("al", "a@x.io", "pw1", "pw1")}

ReplayLoginForms ==
    {LoginForm("a@x.io", "pw1", FALSE), LoginForm("a@x.io", "pw2", FALSE)}

ReplayRequestForms == {RequestResetForm("a@x.io")}

ReplayPasswordForms ==
    {ResetPasswordForm("pw2", "pw2"), ResetPasswordForm("pw1", "pw1")}

NextReplay ==
    \/ \E f \in ReplayRegisterForms : Register("c1", "POST", f)
    \/ RegisterCommit("c1", "s1")
    \/ \E f \in ReplayLoginForms : Login("c1", "POST", f, "")
    \/ Logout("c1")
    \/ \E f \in ReplayRequestForms : ResetRequest("c1", "POST", f, TRUE)
    \/ \E m \in {"GET", "POST"}, t \in MailedTokens, f \in ReplayPasswordForms :
          ResetToken("c1", m, t, f, "s2")
    \/ Tick

SpecReplay == Init /\ [][NextReplay]_vars

\* ------------------------------------- sessions, redirects, restarts
SessionRegisterForms ==
    {RegisterationForm("al", "a@x.io", "pw1", "pw1"),
     RegisterationForm("bo", "b@x.io", "pw1", "pw1")}

SessionLoginForms ==
    {LoginForm("a@x.io", "pw1", TRUE), LoginForm("a@x.io", "pw1", FALSE),
     LoginForm("a@x.io", "pw2", TRUE), LoginForm("b@x.io", "pw1", TRUE)}

SessionAccountForms == {UpdateAccountForm("al", "a@x.io", "")}

SessionPostForms == {PostForm("t1", "body")}

\* The next argument of a login request of client c: none, or, when the
\* browser follows the redirect it was just sent to the login page or posts
\* the login form it was just shown, the one in that page's address.
NextArgs(c) ==
    {""}
    \cup (IF resp.client = c /\ resp.location.path = "users.login"
          THEN {resp.location.next} ELSE {})
    \cup (IF resp.client = c /\ resp.op = "login" /\ resp.outcome = "form"
          THEN {resp.req.next} ELSE {})

NextSession ==
    \/ \E c \in Clients, f \in SessionRegisterForms : Register(c, "POST", f)
    \/ \E c \in Clients : RegisterCommit(c, "s1")
    \/ \E c \in Clients, m \in {"GET", "POST"}, f \in SessionLoginForms :
          \E n \in NextArgs(c) : Login(c, m, f, n)
    \/ \E c \in Clients : Logout(c)
    \/ \E c \in Clients, f \in SessionAccountForms : Account(c, "GET", f)
    \/ \E c \in Clients, m \in {"GET", "POST"}, f \in SessionPostForms :
          NewPost(c, m, f)
    \/ \E c \in Clients, id \in 1..MaxPostId, f \in SessionPostForms :
          UpdatePost(c, "GET", id, f)
    \/ \E c \in Clients : BrowserRestart(c)

SpecSession == Init /\ [][NextSession]_vars

\* ------------------------------------------ one author's posts in time
PostsRegisterForms == {RegisterationForm("al", "a@x.io", "pw1", "pw1")}

PostsLoginForms == {LoginForm("a@x.io", "pw1", FALSE)}

PostsNewForms == {PostForm("t1", "body")}

PostsUpdateForms == {PostForm("t2", "body")}

NextPosts ==
    \/ \E c \in Clients, f \in PostsRegisterForms : Register(c, "POST", f)
    \/ \E c \in Clients : RegisterCommit(c, "s1")
    \/ \E c \in Clients, f \in PostsLoginForms : Login(c, "POST", f, "")
    \/ \E c \in Clients, f \in PostsNewForms : NewPost(c, "POST", f)
    \/ \E c \in Clients, id \in 1..MaxPostId : Post(c, id)
    \/ \E c \in Clients, id \in 1..MaxPostId, f \in PostsUpdateForms :
          UpdatePost(c, "POST", id, f)
    \/ \E c \in Clients, id \in 1..MaxPostId : DeletePost(c, id)
    \/ Tick

SpecPosts == Init /\ [][NextPosts]_vars

\* --------------------------------- a reset while a session is open
SurviveRegisterForms == {RegisterationForm("al", "a@x.io", "pw1", "pw1")}

SurviveLoginForms == {LoginForm("a@x.io", "pw1", FALSE)}

SurviveRequestForms == {RequestResetForm("a@x.io")}

SurvivePasswordForms == {ResetPasswordForm("pw2", "pw2")}

SurvivePostForms == {PostForm("t1", "body")}

NextSurvive ==
    \/ \E c \in Clients, f \in SurviveRegisterForms : Register(c, "POST", f)
    \/ \E c \in Clients : RegisterCommit(c, "s1")
    \/ \E c \in Clients, f \in SurviveLoginForms : Login(c, "POST", f, "")
    \/ \E c \in Clients, f \in SurviveRequestForms :
          ResetRequest(c, "POST", f, TRUE)
    \/ \E c \in Clients, t \in MailedTokens, f \in SurvivePasswordForms :
          ResetToken(c, "POST", t, f, "s2")
    \/ \E c \in Clients, f \in SurvivePostForms : NewPost(c, "POST", f)
    \/ \E c \in Clients, id \in 1..MaxPostId, f \in SurvivePostForms :
          UpdatePost(c, "POST", id, f)

SpecSurvive == Init /\ [][NextSurvive]_vars

\* ------------------------------------------------ every operation
\* One browser, every operation of the application.
AllClients == {"c1"}

AllRegisterForms ==
    {RegisterationForm("al", "a@x.io", "pw1", "pw1"),
     RegisterationForm("bo", "b@x.io", "pw1", "pw1")}

AllLoginForms ==
    {LoginForm("a@x.io", "pw1", FALSE), LoginForm("a@x.io", "pw2", FALSE),
     LoginForm("b@x.io", "pw1", FALSE)}

AllAccountForms == {UpdateAccountForm("al", "b@x.io", "")}

AllPostForms == {PostForm("t1", "body")}

AllResetForms == {RequestResetForm("a@x.io")}

AllPasswordForms == {ResetPasswordForm("pw2", "pw2")}

Next ==
    \/ \E c \in AllClients, f \in AllRegisterForms : Register(c, "POST", f)
    \/ \E c \in AllClients : RegisterCommit(c, "s1")
    \/ \E c \in AllClients, f \in AllLoginForms : Login(c, "POST", f, "")
    \/ \E c \in AllClients : Logout(c)
    \/ \E c \in AllClients, f \in AllAccountForms : Account(c, "POST", f)
    \/ \E c \in AllClients, h \in RandomHexes : AccountCommit(c, h)
    \/ \E c \in AllClients, f \in AllPostForms : NewPost(c, "POST", f)
    \/ \E c \in AllClients, id \in 1..MaxPostId, f \in AllPostForms :
          UpdatePost(c, "POST", id, f)
    \/ \E c \in AllClients, id \in 1..MaxPostId : DeletePost(c, id)
    \/ \E c \in AllClients, f \in AllResetForms, ok \in BOOLEAN :
          ResetRequest(c, "POST", f, ok)
    \/ \E c \in AllClients, t \in MailedTokens \cup ForgedTokens,
          f \in AllPasswordForms : ResetToken(c, "POST", t, f, "s1")
    \/ Tick

Spec == Init /\ [][Next]_vars

\* A step that answers, or starts to serve, a new request of client c for
\* one of the operations ops (and not the commit of a request in flight).
Request(c, ops) ==
    /\ resp'.client = c
    /\ resp'.op \in ops
    /\ pending[c] = NoReq

\* A step that finishes the request of client c that is in flight.
Commit(c, op) ==
    /\ pending[c].op = op
    /\ resp'.client = c
    /\ resp'.op = op

\* C1: a request to update or delete an existing post from a session
\* authenticated as a user other than the post's author ends in 403, and the
\* post table (so the post's title, content, author, existence) is unchanged.
C1_NonAuthorForbidden ==
    [][\A c \in Clients :
        (/\ Request(c, {"update_post", "delete_post"})
         /\ IsAuthenticated(c)
         /\ resp'.req.post_id \in PostIds
         /\ PostById(resp'.req.post_id).user_id # CurrentUser(c))
        => resp'.outcome = "403" /\ posts' = posts]_vars

C1_Witness ==
    /\ resp.op = "delete_post"
    /\ resp.outcome = "403"
    /\ IsAuthenticated(resp.client)
    /\ resp.req.post_id \in PostIds
    /\ PostById(resp.req.post_id).user_id # CurrentUser(resp.client)

\* C2: a request to a protected operation from an Anonymous session is
\* answered with the redirect to login, and no user or post row is created,
\* changed or deleted by it.
C2_AnonymousRedirected ==
    [][\A c \in Clients :
        (Request(c, ProtectedOps) /\ ~IsAuthenticated(c))
        => /\ resp'.outcome = "redirect_login"
           /\ users' = users
           /\ posts' = posts
           /\ pending' = pending]_vars

C2_Witness ==
    /\ resp.op = "delete_post"
    /\ resp.outcome = "redirect_login"
    /\ ~IsAuthenticated(resp.client)
    /\ resp.req.post_id \in PostIds

\* C3: update_post and delete_post check in a fixed order: the session
\* (Anonymous: redirect to login, whether or not the post exists), then the
\* post's existence (404), then its author (403), and only then change the
\* post; a request that fails a check leaves the store unchanged.
C3_GateOrder ==
    [][\A c \in Clients :
        Request(c, {"update_post", "delete_post"})
        => LET id == resp'.req.post_id
               failed == {"redirect_login", "404", "403"}
           IN /\ IF ~IsAuthenticated(c) THEN resp'.outcome = "redirect_login"
                 ELSE IF id \notin PostIds THEN resp'.outcome = "404"
                 ELSE IF PostById(id).user_id # CurrentUser(c)
                 THEN resp'.outcome = "403"
                 ELSE resp'.outcome \notin failed
              /\ resp'.outcome \in failed => posts' = posts /\ users' = users
              /\ posts' # posts => resp'.outcome \notin failed]_vars

C3_Witness ==
    /\ resp.op = "update_post"
    /\ resp.outcome = "redirect_login"
    /\ ~IsAuthenticated(resp.client)
    /\ resp.req.post_id \notin PostIds
    /\ posts # {}

\* h is a bcrypt hash of the plaintext p, under some salt.
IsHashOf(h, p) == \E salt \in Salts : h = GeneratePasswordHash(p, salt)

\* C4: a session goes from Anonymous to Authenticated(U) only in a login
\* POST of that client whose email is U's stored email and whose password
\* the stored hash of U is a hash of; register, a failed login, the reset
\* requests, account update and the post operations leave every session's
\* identity as it was.
C4_OnlyLoginAuthenticates ==
    [][\A c \in Clients :
        /\ (session'[c].user_id # session[c].user_id /\ session'[c].user_id # 0)
           => LET u == session'[c].user_id IN
              /\ session[c].user_id = 0
              /\ resp'.client = c /\ resp'.op = "login" /\ resp'.method = "POST"
              /\ u \in UserIds
              /\ users[u].email = resp'.req.email
              /\ IsHashOf(users[u].password, resp'.req.password)
        /\ (\/ resp'.op \in {"register", "reset_request", "reset_token",
                             "account", "new_post", "update_post", "delete_post"}
            \/ (resp'.op = "login" /\ resp'.outcome = "form"))
           => session'[c].user_id = session[c].user_id]_vars

C4_Witness ==
    /\ resp.op = "login"
    /\ resp.outcome = "redirect_home"
    /\ session[resp.client].user_id = 1
    /\ users[1].email = resp.req.email
    /\ registered[1].password_changed

\* The login requests C5 is about: a POST from an Anonymous client with the
\* email and password user u registered with, u's password never changed.
LoginAsRegistered(c, u) ==
    /\ Request(c, {"login"})
    /\ resp'.method = "POST"
    /\ ~IsAuthenticated(c)
    /\ resp'.req.email = registered[u].email
    /\ resp'.req.password = registered[u].password
    /\ ~registered[u].password_changed

C6_UniqueUsernameAndEmail ==
    \A u \in UserIds, v \in UserIds :
        u # v => /\ users[u].username # users[v].username
                 /\ users[u].email # users[v].email

C6_Witness ==
    /\ Len(users) = 2
    /\ resp.op = "account"
    /\ resp.outcome = "IntegrityError"

\* C7: of two registrations with one email, both validated before either
\* is committed, the first to commit creates the user and the other then
\* fails on the duplicate key and writes nothing.
C7_ConcurrentRegistration ==
    [][\A c \in Clients :
        Commit(c, "register")
        => /\ FindByEmail(pending[c].req.email) # 0
              => resp'.outcome = "IntegrityError" /\ users' = users
           /\ (/\ \E d \in Clients \ {c} :
                     /\ pending[d].op = "register"
                     /\ pending[d].req.email = pending[c].req.email
               /\ FindByEmail(pending[c].req.email) = 0
               /\ FindByUsername(pending[c].req.username) = 0)
              => /\ resp'.outcome = "redirect_login"
                 /\ Len(users') = Len(users) + 1
                 /\ users'[Len(users')].email = pending[c].req.email
                 /\ Cardinality({u \in 1..Len(users') :
                        users'[u].email = pending[c].req.email}) = 1]_vars

C7_Witness ==
    /\ resp.op = "register"
    /\ resp.outcome = "IntegrityError"
    /\ FindByEmail(resp.req.email) # 0
    /\ FindByUsername(resp.req.username) = 0

\* C8: a register or account request never ends in the fault of a violated
\* UNIQUE constraint; a duplicate username or email is always answered with
\* the form and its 'taken' message.
C8_DuplicatesGetFeedback ==
    resp.op \in {"register", "account"} => resp.outcome # "IntegrityError"

\* C9: a registration POST from an Anonymous client with an email that a
\* user holds is answered with the form and the 'email is taken' message,
\* and leaves the user table as it was, with no write in flight.
C9_TakenEmailRejected ==
    [][\A c \in Clients :
        (/\ Request(c, {"register"})
         /\ resp'.method = "POST"
         /\ ~IsAuthenticated(c)
         /\ \E u \in UserIds : users[u].email = resp'.req.email)
        => /\ resp'.outcome = "form"
           /\ "email_taken" \in resp'.errors
           /\ users' = users
           /\ pending' = pending]_vars

C9_Witness ==
    /\ resp.op = "register"
    /\ resp.outcome = "form"
    /\ resp.errors = {"email_taken"}
    /\ Len(users) = 1
    /\ users[1].email = resp.req.email

\* C10: a reset_token request, GET or POST, with a token issued more than
\* 1800 seconds ago changes no user row, and from an Anonymous client it is
\* answered with the 'invalid or expired' redirect, also when the form had
\* been rendered for that token before; a login with a password the stored
\* hash is a hash of still succeeds.
C10_ExpiredTokenRejected ==
    [][\A c \in Clients :
        /\ (/\ Request(c, {"reset_token"})
            /\ now - resp'.req.token.iat > 1800)
           => /\ users' = users
              /\ ~IsAuthenticated(c)
                 => /\ resp'.outcome = "redirect_reset_request"
                    /\ "invalid_or_expired" \in resp'.errors
        /\ \A u \in UserIds :
              (/\ Request(c, {"login"})
               /\ resp'.method = "POST"
               /\ ~IsAuthenticated(c)
               /\ resp'.req.email = users[u].email
               /\ IsHashOf(users[u].password, resp'.req.password))
              => session'[c].user_id = u]_vars

C10_Witness ==
    /\ resp.op = "reset_token"
    /\ resp.method = "POST"
    /\ resp.outcome = "redirect_reset_request"
    /\ resp.req.token.key = SecretKey
    /\ resp.req.token \in shown
    /\ now - resp.req.token.iat > ExpiresSec
    /\ resp.req.password = resp.req.confirm_password
    /\ ~registered[resp.req.token.user_id].password_changed
    /\ IsHashOf(users[resp.req.token.user_id].password,
                registered[resp.req.token.user_id].password)

\* C11: reset_token writes a password hash only for a token whose signature
\* was made with the server's key.  A token signed with another key changes
\* nothing and is answered with the 'invalid or expired' redirect; a token
\* that is accepted changes the password of the user whose id it carries,
\* to a hash of the submitted password, and no other column or user row.
C11_SignedTokenOnly ==
    [][\A c \in Clients :
        Request(c, {"reset_token"})
        => LET t == resp'.req.token IN
           /\ t.key # SecretKey
              => /\ users' = users /\ posts' = posts
                 /\ session' = session /\ outbox' = outbox
                 /\ ~IsAuthenticated(c)
                    => resp'.outcome = "redirect_reset_request"
           /\ users' # users
              => /\ t.key = SecretKey
                 /\ t.user_id \in UserIds
                 /\ Len(users') = Len(users)
                 /\ \A v \in UserIds : v # t.user_id => users'[v] = users[v]
                 /\ users'[t.user_id].username = users[t.user_id].username
                 /\ users'[t.user_id].email = users[t.user_id].email
                 /\ users'[t.user_id].image_file = users[t.user_id].image_file
                 /\ IsHashOf(users'[t.user_id].password, resp'.req.password)]_vars

C11_Witness ==
    /\ resp.op = "reset_token"
    /\ resp.method = "POST"
    /\ resp.outcome = "redirect_reset_request"
    /\ resp.req.token.key # SecretKey
    /\ resp.req.token.user_id = 2
    /\ now - resp.req.token.iat <= ExpiresSec
    /\ resp.req.password = resp.req.confirm_password
    /\ MailedTokens # {}

\* C12: for every existing user, the token get_reset_token returns for it,
\* verified with no time passed, yields that user; so does every mailed
\* token that was issued at the present time.
C12_IssueThenVerify ==
    /\ \A u \in UserIds : VerifyResetToken(GetResetToken(u)) = u
    /\ \A m \in outbox :
          m.token.iat = now
          => /\ VerifyResetToken(m.token) = m.token.user_id
             /\ users[m.token.user_id].email = m.to

C12_Witness ==
    /\ resp.op = "reset_token"
    /\ resp.method = "GET"
    /\ resp.outcome = "form"
    /\ resp.req.token \in MailedTokens
    /\ resp.req.token.iat = now
    /\ now > 0
    /\ resp.req.token = GetResetToken(resp.req.token.user_id)

\* C13: a token is accepted again after a token has changed its user's
\* password: while it is no more than 1800 seconds old, an Anonymous client
\* presenting it gets the form, and a valid POST replaces the password once
\* more, by a hash of the password now submitted.
C13_TokenReplay ==
    [][\A c \in Clients :
        (/\ Request(c, {"reset_token"})
         /\ ~IsAuthenticated(c)
         /\ resp'.req.token \in MailedTokens
         /\ resp'.req.token.user_id \in UserIds
         /\ registered[resp'.req.token.user_id].password_changed
         /\ now - resp'.req.token.iat <= 1800)
        => LET u == resp'.req.token.user_id IN
           /\ resp'.outcome \in {"form", "redirect_login"}
           /\ (/\ resp'.method = "POST"
               /\ resp'.req.password # ""
               /\ resp'.req.confirm_password = resp'.req.password)
              => /\ resp'.outcome = "redirect_login"
                 /\ IsHashOf(users'[u].password, resp'.req.password)
                 /\ registered'[u].changed_again]_vars

\* The one token ever mailed has reset the password twice, the second time,
\* at the last second of its validity, back to the first password.
C13_Witness ==
    /\ resp.op = "reset_token"
    /\ resp.outcome = "redirect_login"
    /\ Cardinality(outbox) = 1
    /\ resp.req.token \in MailedTokens
    /\ registered[resp.req.token.user_id].changed_again
    /\ resp.req.password = "pw1"
    /\ users[resp.req.token.user_id].password = GeneratePasswordHash("pw1", "s2")
    /\ now - resp.req.token.iat = ExpiresSec

\* C14: a reset_request, whether or not it issues a token, leaves every
\* user row, post and session as it was and starts no write; a user a token
\* was mailed for, whose password has not been reset, still logs in with the
\* password registered.
C14_ResetRequestNoSideEffect ==
    [][\A c \in Clients :
        /\ Request(c, {"reset_request"})
           => /\ users' = users /\ posts' = posts
              /\ session' = session /\ pending' = pending
              /\ resp'.outcome = "redirect_login"
                 => /\ outbox' = outbox \cup
                          {[to |-> resp'.req.email,
                            token |-> [user_id |-> FindByEmail(resp'.req.email),
                                       iat |-> now, key |-> SecretKey]]}
                    /\ FindByEmail(resp'.req.email) # 0
        /\ \A u \in UserIds :
              (/\ Request(c, {"login"})
               /\ resp'.method = "POST"
               /\ ~IsAuthenticated(c)
               /\ \E m \in outbox : m.token.user_id = u
               /\ ~registered[u].password_changed
               /\ resp'.req.email = users[u].email
               /\ resp'.req.password = registered[u].password)
              => /\ session'[c].user_id = u
                 /\ resp'.outcome = "redirect_home"]_vars

C14_Witness ==
    /\ resp.op = "login"
    /\ resp.outcome = "redirect_home"
    /\ \E m \in outbox : /\ m.token.user_id = session[resp.client].user_id
                          /\ m.to = resp.req.email
    /\ \E c \in Clients : c # resp.client /\ IsAuthenticated(c)
    /\ resp.req.password = registered[session[resp.client].user_id].password
    /\ ~registered[session[resp.client].user_id].password_changed

\* C15: a login POST (well-formed email, non-empty password) from an
\* Anonymous client gets one and the same answer when no user has the email
\* and when a user has it and the password is wrong: the login form with the
\* 'Login Unsuccessful' message and nothing else, the session Anonymous as
\* before, and no row, mail or request in flight changed.
C15_LoginFailuresAlike ==
    [][\A c \in Clients :
        (/\ Request(c, {"login"})
         /\ resp'.method = "POST"
         /\ ~IsAuthenticated(c)
         /\ resp'.req.email \in {"a@x.io", "b@x.io"}
         /\ resp'.req.password # ""
         /\ \/ \A u \in UserIds : users[u].email # resp'.req.email
            \/ \E u \in UserIds :
                  /\ users[u].email = resp'.req.email
                  /\ ~IsHashOf(users[u].password, resp'.req.password))
        => /\ resp'.outcome = "form"
           /\ resp'.errors = {"login_unsuccessful"}
           /\ session' = session
           /\ session'[c] = AnonymousSession
           /\ users' = users /\ posts' = posts
           /\ outbox' = outbox /\ pending' = pending]_vars

C15_Witness ==
    /\ resp.op = "login"
    /\ resp.method = "POST"
    /\ resp.outcome = "form"
    /\ resp.errors = {"login_unsuccessful"}
    /\ Len(users) = 1
    /\ users[1].email = resp.req.email
    /\ ~IsHashOf(users[1].password, resp.req.password)
    /\ posts # {}

\* C16: a logout request leaves the client's session Anonymous whatever it
\* was (and changes nothing when it was Anonymous already), and no other
\* client's session or any row; a session that is Anonymous becomes
\* Authenticated only by a successful login of that client, and until then
\* every protected request of the client is answered with the redirect to
\* login.
C16_LogoutEndsSession ==
    [][\A c \in Clients :
        /\ Request(c, {"logout"})
           => /\ session'[c] = AnonymousSession
              /\ \A d \in Clients \ {c} : session'[d] = session[d]
              /\ ~IsAuthenticated(c) => session' = session
              /\ users' = users /\ posts' = posts /\ pending' = pending
        /\ (~IsAuthenticated(c) /\ session'[c].user_id # 0)
           => /\ resp'.client = c
              /\ resp'.op = "login"
              /\ resp'.outcome \in {"redirect_home", "redirect_next"}
        /\ (Request(c, ProtectedOps) /\ ~IsAuthenticated(c))
           => /\ resp'.outcome = "redirect_login"
              /\ resp'.location.path = "users.login"
              /\ session'[c] = AnonymousSession]_vars

\* The one client wrote a post, so had logged in; its session is Anonymous,
\* so it has logged out; its request to write another post is redirected.
C16_Witness ==
    /\ resp.op = "new_post"
    /\ resp.client = "c1"
    /\ resp.outcome = "redirect_login"
    /\ session["c1"] = AnonymousSession
    /\ \E p \in posts : p.user_id = 2

\* C17: an Anonymous request for a protected page is redirected to the
\* login page with the requested path as next; a successful login redirects
\* to its next argument when it has one and to the home page when it has
\* none; so a client that follows the first redirect and then logs in is
\* sent to the page it had requested.
C17_LoginReturnsToNext ==
    [][\A c \in Clients :
        /\ (Request(c, ProtectedOps) /\ ~IsAuthenticated(c))
           => resp'.location =
                 [path |-> "users.login", next |-> Path(resp'.op, resp'.req)]
        /\ (/\ Request(c, {"login"})
            /\ ~IsAuthenticated(c)
            /\ session'[c].user_id # 0)
           => /\ resp'.location.path =
                    IF resp'.req.next # "" THEN resp'.req.next ELSE "main.home"
              /\ (/\ resp.client = c
                  /\ resp.op \in ProtectedOps
                  /\ resp.outcome = "redirect_login"
                  /\ resp'.req.next = resp.location.next)
                 => resp'.location.path = Path(resp.op, resp.req)]_vars

C17_Witness ==
    /\ resp.op = "login"
    /\ resp.outcome = "redirect_next"
    /\ resp.req.next = "/post/2/update"
    /\ resp.location.path = "/post/2/update"
    /\ session[resp.client].user_id = 2

\* C18: a successful login stores its remember choice with the session, and
\* only the client's own login, logout or browser restart changes the
\* client's session; when the browser is restarted, a session logged in with
\* remember set is Authenticated as the same user afterwards, and one logged
\* in without it is Anonymous.
C18_RememberSurvivesRestart ==
    [][\A c \in Clients :
        /\ (/\ Request(c, {"login"})
            /\ resp'.outcome \in {"redirect_home", "redirect_next"}
            /\ ~IsAuthenticated(c))
           => /\ session'[c].user_id \in UserIds
              /\ users[session'[c].user_id].email = resp'.req.email
              /\ session'[c].remember = resp'.req.remember
        /\ session'[c] # session[c]
           => resp'.client = c /\ resp'.op \in {"login", "logout", "restart"}
        /\ (resp'.client = c /\ resp'.op = "restart")
           => /\ (IsAuthenticated(c) /\ session[c].remember)
                 => session'[c] = session[c]
              /\ ~session[c].remember => session'[c].user_id = 0
              /\ users' = users /\ posts' = posts]_vars

C18_Witness ==
    /\ resp.op = "restart"
    /\ session[resp.client].user_id = 2
    /\ session[resp.client].remember
    /\ \E c \in Clients : c # resp.client /\ session[c].user_id = 1
                                          /\ ~session[c].remember

\* C19: after every step each post has one row, whose author is an existing
\* user; a post that was not there before the step was created by a new_post
\* request and has the user of that request's session as its author; and a
\* post that was there before and still is has the author it had.
C19_PostAuthor ==
    [][/\ \A p \in posts' : p.user_id \in 1..Len(users')
       /\ \A p \in posts', q \in posts' : p.id = q.id => p = q
       /\ \A p \in posts' :
             p.id \notin PostIds
             => /\ resp'.op = "new_post"
                /\ resp'.method = "POST"
                /\ session[resp'.client].user_id # 0
                /\ p.user_id = session[resp'.client].user_id
       /\ \A p \in posts, q \in posts' :
             p.id = q.id => q.user_id = p.user_id]_vars

C19_Witness ==
    /\ resp.op = "new_post"
    /\ resp.outcome = "redirect_home"
    /\ session[resp.client].user_id = 2
    /\ \E p \in posts : p.id = 2 /\ p.user_id = 2 /\ p.title = resp.req.title
    /\ \E p \in posts : p.id = 1 /\ p.user_id = 1 /\ p.title = "t2"

\* C20: a step adds at most one user row and removes none, and only the
\* commit of a register request adds one; the row with id u stays the row
\* of the user who registered as u; and the username, email or image of
\* user u changes only in the commit of an account POST of a client whose
\* session is authenticated as u, which leaves u's password and every other
\* user's row as they were.
C20_UserLifecycle ==
    [][/\ Len(users') >= Len(users)
       /\ Len(users') > Len(users)
          => /\ Len(users') = Len(users) + 1
             /\ resp'.op = "register"
             /\ \E c \in Clients : Commit(c, "register")
       /\ \A u \in UserIds :
             /\ registered'[u].email = registered[u].email
             /\ registered'[u].password = registered[u].password
             /\ (\/ users'[u].username # users[u].username
                 \/ users'[u].email # users[u].email
                 \/ users'[u].image_file # users[u].image_file)
                => /\ resp'.op = "account"
                   /\ resp'.method = "POST"
                   /\ Commit(resp'.client, "account")
                   /\ session[resp'.client].user_id = u
                   /\ users'[u].password = users[u].password
                   /\ \A v \in UserIds \ {u} : users'[v] = users[v]]_vars

C20_Witness ==
    /\ resp.op = "account"
    /\ resp.outcome = "redirect_account"
    /\ Len(users) = 2
    /\ session[resp.client].user_id = 1
    /\ users[1].image_file = "9f3a.jpg"
    /\ users[2].image_file = DefaultImage

\* C21: an account POST whose username and email no other user holds ends
\* in the redirect to the account page with the submitted username and email
\* stored; one whose username or email another user holds, when the request
\* arrives or by the time its row is written, is answered with the form and
\* a 'taken' message, and the user table is as it was.
C21_AccountUpdate ==
    [][\A c \in Clients :
        /\ (/\ Request(c, {"account"})
            /\ resp'.method = "POST"
            /\ IsAuthenticated(c)
            /\ \E v \in UserIds \ {session[c].user_id} :
                  \/ users[v].username = resp'.req.username
                  \/ users[v].email = resp'.req.email)
           => /\ resp'.outcome = "form"
              /\ resp'.errors \cap {"username_taken", "email_taken"} # {}
              /\ users' = users
              /\ pending' = pending
        /\ Commit(c, "account")
           => LET id == pending[c].user_id
                  form == pending[c].req
              IN IF \A v \in UserIds \ {id} :
                       /\ users[v].username # form.username
                       /\ users[v].email # form.email
                 THEN /\ resp'.outcome = "redirect_account"
                      /\ users'[id].username = form.username
                      /\ users'[id].email = form.email
                 ELSE /\ resp'.outcome = "form"
                      /\ resp'.errors \cap {"username_taken", "email_taken"} # {}
                      /\ users' = users]_vars

\* C22: a reset_request is answered with 'an email has been sent' (the
\* redirect to login) only when the mail for the user was handed to the
\* transport in that request; a valid request from an Anonymous client either
\* does that or, the transport failing, ends in the fault and sends nothing.
C22_MailFailurePropagates ==
    [][\A c \in Clients :
        Request(c, {"reset_request"})
        => LET sent == outbox' \ outbox IN
           /\ resp'.outcome = "redirect_login"
              => /\ \E u \in UserIds :
                       /\ users[u].email = resp'.req.email
                       /\ [to |-> resp'.req.email,
                           token |-> [user_id |-> u, iat |-> now,
                                      key |-> SecretKey]] \in outbox'
           /\ resp'.outcome # "redirect_login" => sent = {}
           /\ (/\ resp'.method = "POST"
               /\ ~IsAuthenticated(c)
               /\ \E u \in UserIds : users[u].email = resp'.req.email)
              => resp'.outcome \in {"redirect_login", "MailError"}]_vars

C22_Witness ==
    /\ resp.op = "reset_request"
    /\ resp.method = "POST"
    /\ resp.outcome = "MailError"
    /\ \E u \in UserIds : users[u].email = resp.req.email
    /\ outbox = {}
    /\ posts # {}

\* C23: a reset_token request answered with success for user u leaves u's
\* stored hash a hash of the submitted password and, when that differs from
\* the old password, no longer a hash of the old one; the stored hash changes
\* in no other step; and a login POST of an Anonymous client with the email
\* of a user whose password was reset succeeds exactly when the stored hash
\* is a hash of the submitted password.
C23_NewPasswordReplacesOld ==
    [][\A c \in Clients :
        /\ (Request(c, {"reset_token"}) /\ resp'.outcome = "redirect_login")
           => LET u == resp'.req.token.user_id IN
              /\ u \in UserIds
              /\ IsHashOf(users'[u].password, resp'.req.password)
              /\ \A old \in {"pw1", "pw2"} :
                    (IsHashOf(users[u].password, old) /\ old # resp'.req.password)
                    => ~IsHashOf(users'[u].password, old)
        /\ \A u \in UserIds :
              /\ users'[u].password # users[u].password => resp'.op = "reset_token"
              /\ (/\ Request(c, {"login"})
                  /\ resp'.method = "POST"
                  /\ ~IsAuthenticated(c)
                  /\ registered[u].password_changed
                  /\ resp'.req.email = users[u].email
                  /\ resp'.req.password # "")
                 => IF IsHashOf(users[u].password, resp'.req.password)
                    THEN /\ session'[c].user_id = u
                         /\ resp'.outcome = "redirect_home"
                    ELSE /\ session'[c].user_id = 0
                         /\ resp'.outcome = "form"
                         /\ resp'.errors = {"login_unsuccessful"}]_vars

C23_Witness ==
    /\ resp.op = "login"
    /\ resp.outcome = "form"
    /\ resp.errors = {"login_unsuccessful"}
    /\ Len(users) = 1
    /\ users[1].email = resp.req.email
    /\ registered[1].password_changed
    /\ resp.req.password = registered[1].password
    /\ IsHashOf(users[1].password, "pw2")

\* C24: a register, login, reset_request or reset_token request of a client
\* whose session is Authenticated is answered with the redirect to the home
\* page, whatever it submits, and changes no user row, post, mail, session
\* or request in flight.
C24_AuthenticatedRedirectedHome ==
    [][\A c \in Clients :
        (/\ Request(c, {"register", "login", "reset_request", "reset_token"})
         /\ session[c].user_id # 0)
        => /\ resp'.outcome = "redirect_home"
           /\ resp'.location.path = "main.home"
           /\ users' = users /\ posts' = posts
           /\ outbox' = outbox /\ session' = session
           /\ pending' = pending]_vars

\* The session is user 2's; a POST with a valid token for user 1 and a new
\* password is answered with the redirect home.
C24_Witness ==
    /\ resp.op = "reset_token"
    /\ resp.method = "POST"
    /\ resp.outcome = "redirect_home"
    /\ session[resp.client].user_id = 2
    /\ resp.req.token \in MailedTokens
    /\ resp.req.token.user_id = 1
    /\ now - resp.req.token.iat <= ExpiresSec
    /\ resp.req.password = resp.req.confirm_password
    /\ ~registered[1].password_changed

\* What C25 says of the successful requests: an update_post answered with
\* success replaces the title and content of that post, written by the
\* session's user, and nothing else of it or of any other post; a delete_post
\* answered with success removes that post and no other; users are unchanged.
UpdateAndDeleteFrame ==
    \A c \in Clients :
        /\ (Request(c, {"update_post"}) /\ resp'.outcome = "redirect_post")
           => LET id == resp'.req.post_id IN
              /\ id \in PostIds
              /\ PostById(id).user_id = session[c].user_id
              /\ posts' = (posts \ {PostById(id)}) \cup
                     {[id |-> id, title |-> resp'.req.title,
                       content |-> resp'.req.content,
                       date_posted |-> PostById(id).date_posted,
                       user_id |-> PostById(id).user_id]}
              /\ users' = users
        /\ (Request(c, {"delete_post"}) /\ resp'.outcome = "redirect_home")
           => LET id == resp'.req.post_id IN
              /\ id \in PostIds
              /\ PostById(id).user_id = session[c].user_id
              /\ posts' = posts \ {PostById(id)}
              /\ \A p \in posts' : p.id # id
              /\ users' = users

\* C25 as stated: beside the above, the request that follows a successful
\* delete_post and names the same post id, to view, update or delete it, is
\* answered NotFound, whoever sends it, and changes no post or user.
C25_AsStated ==
    [][/\ UpdateAndDeleteFrame
       /\ (/\ resp.op = "delete_post"
           /\ resp.outcome = "redirect_home"
           /\ resp'.op \in {"post", "update_post", "delete_post"}
           /\ resp'.req.post_id = resp.req.post_id)
          => /\ resp'.outcome = "404"
             /\ posts' = posts /\ users' = users]_vars

\* C25, amended: beside the above, while a post id is in no row (it was
\* deleted and not given to a new post, or never used), viewing it is
\* answered NotFound, updating or deleting it is answered NotFound for an
\* Authenticated session and with the redirect to login for an Anonymous
\* one, and no post or user is changed.
C25_PostUpdateDelete ==
    [][/\ UpdateAndDeleteFrame
       /\ \A c \in Clients :
             (/\ Request(c, {"post", "update_post", "delete_post"})
              /\ resp'.req.post_id \notin PostIds)
             => /\ resp'.outcome =
                      IF resp'.op = "post" \/ session[c].user_id # 0
                      THEN "404" ELSE "redirect_login"
                /\ posts' = posts /\ users' = users]_vars

\* The author deleted the first of two posts, written at different times and
\* the other since updated, and then asked for the deleted one.
C25_Witness ==
    /\ resp.op = "post"
    /\ resp.outcome = "404"
    /\ resp.req.post_id = 1
    /\ session[resp.client].user_id = 1
    /\ posts = {[id |-> 2, title |-> "t2", content |-> "body",
                 date_posted |-> TickStep, user_id |-> 1]}
    /\ now > TickStep

\* C26: a message enters the outbox only in a reset_request POST of an
\* Anonymous client whose submitted email is the stored email of a user; the
\* message is addressed to that email and its token carries that user's id;
\* a reset_request POST of an Anonymous client with a well-formed email that
\* no user holds is answered with the form and the 'no account' error and
\* sends nothing.
C26_MailOnlyToExistingUser ==
    [][/\ \A m \in outbox' \ outbox :
             \E c \in Clients :
                /\ Request(c, {"reset_request"})
                /\ resp'.method = "POST"
                /\ session[c].user_id = 0
                /\ m.to = resp'.req.email
                /\ m.token.user_id \in UserIds
                /\ users[m.token.user_id].email = m.to
                /\ outbox' = outbox \cup {m}
       /\ \A c \in Clients :
             (/\ Request(c, {"reset_request"})
              /\ resp'.method = "POST"
              /\ session[c].user_id = 0
              /\ Email(resp'.req.email)
              /\ \A u \in UserIds : users[u].email # resp'.req.email)
             => /\ resp'.outcome = "form"
                /\ "no_account" \in resp'.errors
                /\ outbox' = outbox]_vars

\* The mail went to the second of two users, with the token of that user.
C26_Witness ==
    /\ resp.op = "reset_request"
    /\ resp.outcome = "redirect_login"
    /\ Cardinality(UserIds) = 2
    /\ \E m \in outbox :
          /\ m.to = resp.req.email
          /\ m.token.user_id = 2
          /\ users[2].email = m.to
          /\ users[1].email # m.to

\* A reset_request for an email that a user held until the account update
\* was answered 'no account'; nothing was sent.
C26_WitnessNoAccount ==
    /\ resp.op = "reset_request"
    /\ resp.outcome = "form"
    /\ resp.errors = {"no_account"}
    /\ \E u \in UserIds : registered[u].email = resp.req.email
    /\ outbox = {}

\* C27: a reset_token request answered with success leaves every session
\* as it was, the sessions of the user whose password it changed included;
\* and a session of a user whose password was reset is still served as that
\* user: its new_post POST with a valid form stores a post of that user, its
\* update_post of an own post is carried out, and neither is sent to login.
C27_ResetKeepsSessions ==
    [][\A c \in Clients :
        /\ (Request(c, {"reset_token"}) /\ resp'.outcome = "redirect_login")
           => session' = session
        /\ (/\ session[c].user_id # 0
            /\ registered[session[c].user_id].password_changed)
           => /\ Request(c, {"new_post"})
                 => /\ resp'.outcome = "redirect_home"
                    /\ \E p \in posts' \ posts : p.user_id = session[c].user_id
              /\ (/\ Request(c, {"update_post"})
                  /\ \E p \in posts : /\ p.id = resp'.req.post_id
                                       /\ p.user_id = session[c].user_id)
                 => resp'.outcome = "redirect_post"
              /\ Request(c, {"new_post", "update_post"})
                 => session'[c] = session[c]]_vars

\* The session that logged in with the old password wrote a post after
\* another client reset the password.
C27_Witness ==
    /\ resp.op = "new_post"
    /\ resp.outcome = "redirect_home"
    /\ session[resp.client].user_id = 1
    /\ registered[1].password_changed
    /\ ~CheckPasswordHash(users[1].password, "pw1")
    /\ \E d \in Clients \ {resp.client} : session[d].user_id = 0
    /\ \E p \in posts : p.user_id = 1

====
